---- MODULE Spec2Model ----
(***************************************************************************)
(* Model of src/project.py, the Streamlit salary dashboard.                *)
(*                                                                         *)
(* One execution of the script is a run: Streamlit executes the file top   *)
(* to bottom, and every widget interaction starts a new run from line 1    *)
(* with a fresh namespace; only the widgets' values survive (session       *)
(* state).  An uncaught exception ends the run, leaving on the page what   *)
(* was rendered before it plus the exception box.                          *)
(*                                                                         *)
(* Representation.  Category values (years, seniorities, contract types,   *)
(* company sizes, roles, countries, work types) are natural numbers that   *)
(* stand for the value's rank in Python's ordering of the column's values, *)
(* so that sorted(), groupby's key order and mode()'s result order are     *)
(* computed and not assumed.  A blank CSV cell in 'remoto' is NaN.  A mean *)
(* is the pair [num, den] of the sum and the count it is the quotient of;  *)
(* means are compared by cross multiplication.                             *)
(***************************************************************************)
EXTENDS Integers, Sequences, FiniteSets, TLC

\* ------------------------------------------------------------------ bounds
MaxRows == 2      \* rows of a dataset of the small family
WideRoles == 11   \* roles of a dataset of the wide family (more than TopN)

\* ------------------------------------------------------- program constants
TopN == 10            \* .nlargest(10)
DataScientist == 2    \* the role the country chart is restricted to
EmptyString == 0      \* "", which sorts before every role name
NaN == 0 - 1          \* pandas' missing value, read from a blank cell

AllColumns ==
  {"ano", "senioridade", "contrato", "tamanho_empresa",
   "cargo", "usd", "remoto", "residencia_iso3"}

VARIABLES
  csv_columns,              \* header of the CSV file behind the URL
  csv_rows,                 \* its rows, in file order
  argsort_ties,             \* how this build's quicksort argsort orders ties
  session,                  \* Streamlit session state: the widgets' values
  pc,                       \* position of the run in the script
  page,                     \* elements rendered by the current run
  df,
  available_years, available_seniorities,
  available_contract_types, available_company_sizes,
  selected_years, selected_seniorities,
  selected_contract_types, selected_company_sizes,
  filtered_df,
  average_salary, maximum_salary, total_records, most_frequent_role,
  top_roles, work_type_counts, average_salary_by_country

source == <<csv_columns, csv_rows, argsort_ties>>
namespace ==
  <<df, available_years, available_seniorities, available_contract_types,
    available_company_sizes, selected_years, selected_seniorities,
    selected_contract_types, selected_company_sizes, filtered_df,
    average_salary, maximum_salary, total_records, most_frequent_role,
    top_roles, work_type_counts, average_salary_by_country>>
vars == <<source, session, pc, page, namespace>>

\* ----------------------------------------------------------- sequences
Range(s) == {s[i] : i \in 1..Len(s)}

Min(S) == CHOOSE x \in S : \A y \in S : x <= y

Max(S) == CHOOSE x \in S : \A y \in S : y <= x

RECURSIVE sorted(_)
\* Python's sorted() of a collection of distinct values.
sorted(S) ==
  IF S = {} THEN <<>> ELSE <<Min(S)>> \o sorted(S \ {Min(S)})

RECURSIVE SumSeq(_)
SumSeq(s) == IF s = <<>> THEN 0 ELSE s[1] + SumSeq(Tail(s))

Column(frame, c) == [i \in 1..Len(frame) |-> frame[i][c]]

unique(col) == Range(col)

\* Boolean-mask selection frame[mask]: the rows whose mask is true, in order.
RECURSIVE MaskSelect(_, _)
MaskSelect(frame, mask) ==
  IF frame = <<>> THEN <<>>
  ELSE (IF mask[1] THEN <<frame[1]>> ELSE <<>>)
       \o MaskSelect(Tail(frame), Tail(mask))

\* ------------------------------------------------------ pandas operations
\* isin with an empty list read as "no restriction".
isinEmptyMeansAll(col, values) ==
  [i \in 1..Len(col) |-> values = {} \/ col[i] \in values]

\* Series.isin(values): the boolean mask of the cells that are in values.
isin(col, values) == [i \in 1..Len(col) |-> col[i] \in values]

\* mask1 & mask2
MaskAnd(m1, m2) == [i \in 1..Len(m1) |-> m1[i] /\ m2[i]]

\* Series.mean() of a column of numbers: the sum over the count.
mean(col) == [num |-> SumSeq(col), den |-> Len(col)]

\* min() written for max().
maxSmallest(col) == Min(Range(col))

\* Series.max()
max(col) == Max(Range(col))

\* Comparison of two means (quotients with positive denominators).
MeanLess(a, b) == a.num * b.den < b.num * a.den

Occurrences(col, v) == Cardinality({i \in 1..Len(col) : col[i] = v})

\* Series.dropna()
RECURSIVE dropna(_)
dropna(col) ==
  IF col = <<>> THEN <<>>
  ELSE (IF col[1] = NaN THEN <<>> ELSE <<col[1]>>) \o dropna(Tail(col))

\* The distinct values of a column in the order of their first occurrence
\* (the order of pandas' hash table).
RECURSIVE FirstSeen(_)
FirstSeen(col) ==
  IF col = <<>> THEN <<>>
  ELSE LET front == FirstSeen(SubSeq(col, 1, Len(col) - 1))
           last == col[Len(col)]
       IN IF last \in Range(front) THEN front ELSE Append(front, last)

\* mode() without the final sort: the values of maximal count in hash
\* table order.
modeFirstSeen(col) ==
  LET vals == unique(dropna(col))
      seen == FirstSeen(dropna(col))
      Top(v) == \A w \in vals : Occurrences(col, w) <= Occurrences(col, v)
  IN SelectSeq(seen, Top)

\* Series.mode(): the values of maximal count, returned sorted.
mode(col) ==
  LET vals == unique(dropna(col))
      modes == {v \in vals : \A w \in vals :
                  Occurrences(col, w) <= Occurrences(col, v)}
  IN sorted(modes)

\* frame[frame[c] == v]
RowsWhere(frame, c, v) ==
  MaskSelect(frame, [i \in 1..Len(frame) |-> frame[i][c] = v])

\* frame.groupby(key)['usd'].mean(): one entry per distinct key, in sorted key
\* order (groupby's sort=True), each with the mean of its group's 'usd'.
groupby_mean(frame, key) ==
  LET keys == sorted(unique(Column(frame, key)))
  IN [i \in 1..Len(keys) |->
        [key |-> keys[i],
         usd |-> mean(Column(RowsWhere(frame, key, keys[i]), "usd"))]]

\* The strict order of the sort keys: by names what is sorted on.
Before(a, b, by) ==
  CASE by = "usd" -> MeanLess(a.usd, b.usd)
    [] by = "-usd" -> MeanLess(b.usd, a.usd)
    [] by = "count" -> a.count < b.count

\* numpy argsort, ascending, applied to the entries themselves.  A stable
\* kind keeps tied entries in their input order; kind='quicksort' promises no
\* order among ties, and ties is what the build at hand does with them.
RECURSIVE argsort(_, _, _)
argsort(s, by, ties) ==
  IF s = <<>> THEN <<>>
  ELSE LET n == Len(s)
           front == argsort(SubSeq(s, 1, n - 1), by, ties)
           x == s[n]
           \* entries of front that stay in front of x
           k == IF ties = "stable"
                THEN Cardinality({i \in 1..Len(front) : ~Before(x, front[i], by)})
                ELSE Cardinality({i \in 1..Len(front) : Before(front[i], x, by)})
       IN SubSeq(front, 1, k) \o <<x>> \o SubSeq(front, k + 1, Len(front))

Reverse(s) == [i \in 1..Len(s) |-> s[Len(s) + 1 - i]]

\* pandas nargsort: a descending sort reverses the input, sorts ascending and
\* reverses the result.
nargsort(s, by, ascending, ties) ==
  IF ascending THEN argsort(s, by, ties)
  ELSE Reverse(argsort(Reverse(s), by, ties))

\* Series.sort_values(ascending=...), default kind='quicksort'.
sort_values(s, ascending, ties) == nargsort(s, "usd", ascending, ties)

head(s, n) == SubSeq(s, 1, IF n < Len(s) THEN n ELSE Len(s))

\* nlargest with keep='last'.
nlargestKeepLast(s, n, ties) ==
  IF n >= Len(s) THEN head(nargsort(s, "usd", FALSE, ties), n)
  ELSE head(argsort(Reverse(s), "-usd", "stable"), n)

\* Series.nlargest(n), keep='first': when n covers the series it is
\* sort_values(ascending=False).head(n); otherwise a mergesort (stable)
\* argsort of the negated values, cut to the first n.
nlargest(s, n, ties) ==
  IF n >= Len(s) THEN head(sort_values(s, FALSE, ties), n)
  ELSE head(argsort(s, "-usd", "stable"), n)

\* Series.value_counts(): dropna=True, one entry per distinct value in hash
\* table order, then sorted descending by count (kind='quicksort').
value_counts(col, ties) ==
  LET kept == dropna(col)
      keys == FirstSeen(kept)
      table == [i \in 1..Len(keys) |->
                  [work_type |-> keys[i], count |-> Occurrences(kept, keys[i])]]
  IN nargsort(table, "count", FALSE, ties)

\* ------------------------------------------------------------ the script
Widgets == {"Year", "Seniority", "Contract Type", "Company Size"}

\* What the namespace of a run holds before the script assigns it.
Zero == [num |-> 0, den |-> 1]

FreshNamespace ==
  /\ df = <<>>
  /\ available_years = <<>>
  /\ available_seniorities = <<>>
  /\ available_contract_types = <<>>
  /\ available_company_sizes = <<>>
  /\ selected_years = {}
  /\ selected_seniorities = {}
  /\ selected_contract_types = {}
  /\ selected_company_sizes = {}
  /\ filtered_df = <<>>
  /\ average_salary = Zero
  /\ maximum_salary = 0
  /\ total_records = 0
  /\ most_frequent_role = EmptyString
  /\ top_roles = <<>>
  /\ work_type_counts = <<>>
  /\ average_salary_by_country = <<>>

\* An uncaught exception (here always a KeyError for a column the frame does
\* not have): the run stops and Streamlit shows the exception.
Raise ==
  /\ pc' = "failed"
  /\ page' = page \cup {"exception"}

\* multiselect with default=options[:1].
multiselectDefaultFirst(label, options) ==
  IF session[label].touched THEN session[label].value
  ELSE {options[i] : i \in 1..(IF Len(options) = 0 THEN 0 ELSE 1)}

\* st.sidebar.multiselect(label, options, default=options): the widget's
\* value is the default until the user has changed it, then what the user
\* left selected.
multiselect(label, options) ==
  IF session[label].touched THEN session[label].value ELSE Range(options)

\* Lines 23-25: pd.read_csv.
Load ==
  /\ pc = "load"
  /\ df' = csv_rows
  /\ pc' = "years"
  /\ UNCHANGED <<source, session, page,
       available_years, available_seniorities, available_contract_types,
       available_company_sizes, selected_years, selected_seniorities,
       selected_contract_types, selected_company_sizes, filtered_df,
       average_salary, maximum_salary, total_records, most_frequent_role,
       top_roles, work_type_counts, average_salary_by_country>>

\* Lines 31-39.
YearFilter ==
  /\ pc = "years"
  /\ IF "ano" \in csv_columns
     THEN /\ available_years' = sorted(unique(Column(df, "ano")))
          /\ selected_years' = multiselect("Year", available_years')
          /\ page' = page \cup {"Filters", "Year"}
          /\ pc' = "seniorities"
     ELSE /\ Raise
          /\ UNCHANGED <<available_years, selected_years>>
  /\ UNCHANGED <<source, session, df,
       available_seniorities, available_contract_types,
       available_company_sizes, selected_seniorities,
       selected_contract_types, selected_company_sizes, filtered_df,
       average_salary, maximum_salary, total_records, most_frequent_role,
       top_roles, work_type_counts, average_salary_by_country>>

\* Lines 42-47.
SeniorityFilter ==
  /\ pc = "seniorities"
  /\ IF "senioridade" \in csv_columns
     THEN /\ available_seniorities' = sorted(unique(Column(df, "senioridade")))
          /\ selected_seniorities' =
               multiselect("Seniority", available_seniorities')
          /\ page' = page \cup {"Seniority"}
          /\ pc' = "contracts"
     ELSE /\ Raise
          /\ UNCHANGED <<available_seniorities, selected_seniorities>>
  /\ UNCHANGED <<source, session, df,
       available_years, available_contract_types,
       available_company_sizes, selected_years,
       selected_contract_types, selected_company_sizes, filtered_df,
       average_salary, maximum_salary, total_records, most_frequent_role,
       top_roles, work_type_counts, average_salary_by_country>>

\* Lines 50-55.
ContractFilter ==
  /\ pc = "contracts"
  /\ IF "contrato" \in csv_columns
     THEN /\ available_contract_types' = sorted(unique(Column(df, "contrato")))
          /\ selected_contract_types' =
               multiselect("Contract Type", available_contract_types')
          /\ page' = page \cup {"Contract Type"}
          /\ pc' = "sizes"
     ELSE /\ Raise
          /\ UNCHANGED <<available_contract_types, selected_contract_types>>
  /\ UNCHANGED <<source, session, df,
       available_years, available_seniorities,
       available_company_sizes, selected_years, selected_seniorities,
       selected_company_sizes, filtered_df,
       average_salary, maximum_salary, total_records, most_frequent_role,
       top_roles, work_type_counts, average_salary_by_country>>

\* Lines 58-63.
SizeFilter ==
  /\ pc = "sizes"
  /\ IF "tamanho_empresa" \in csv_columns
     THEN /\ available_company_sizes' =
               sorted(unique(Column(df, "tamanho_empresa")))
          /\ selected_company_sizes' =
               multiselect("Company Size", available_company_sizes')
          /\ page' = page \cup {"Company Size"}
          /\ pc' = "filter"
     ELSE /\ Raise
          /\ UNCHANGED <<available_company_sizes, selected_company_sizes>>
  /\ UNCHANGED <<source, session, df,
       available_years, available_seniorities, available_contract_types,
       selected_years, selected_seniorities, selected_contract_types,
       filtered_df,
       average_salary, maximum_salary, total_records, most_frequent_role,
       top_roles, work_type_counts, average_salary_by_country>>

\* The mask without the company size membership.
FilterMaskNoCompanySize(frame, years, seniorities, contract_types, company_sizes) ==
  MaskAnd(MaskAnd(isin(Column(frame, "ano"), years),
                  isin(Column(frame, "senioridade"), seniorities)),
          isin(Column(frame, "contrato"), contract_types))

\* Lines 69-74: the boolean mask of the four memberships and the selection.
FilterMask(frame, years, seniorities, contract_types, company_sizes) ==
  MaskAnd(MaskAnd(MaskAnd(isin(Column(frame, "ano"), years),
                          isin(Column(frame, "senioridade"), seniorities)),
                  isin(Column(frame, "contrato"), contract_types)),
          isin(Column(frame, "tamanho_empresa"), company_sizes))

Filter ==
  /\ pc = "filter"
  /\ filtered_df' =
       MaskSelect(df, FilterMask(df, selected_years, selected_seniorities,
                                 selected_contract_types,
                                 selected_company_sizes))
  /\ pc' = "kpi"
  /\ UNCHANGED <<source, session, page, df,
       available_years, available_seniorities, available_contract_types,
       available_company_sizes, selected_years, selected_seniorities,
       selected_contract_types, selected_company_sizes,
       average_salary, maximum_salary, total_records, most_frequent_role,
       top_roles, work_type_counts, average_salary_by_country>>

\* Lines 79-110: title and the four KPI metrics.
Kpi ==
  /\ pc = "kpi"
  /\ IF filtered_df # <<>>
     THEN IF {"usd", "cargo"} \subseteq csv_columns
          THEN /\ average_salary' = mean(Column(filtered_df, "usd"))
               /\ maximum_salary' = max(Column(filtered_df, "usd"))
               /\ total_records' = Len(filtered_df)
               /\ most_frequent_role' = mode(Column(filtered_df, "cargo"))[1]
               /\ page' = page \cup {"title", "metrics"}
               /\ pc' = "chart1"
          ELSE /\ pc' = "failed"
               /\ page' = page \cup {"title", "exception"}
               /\ UNCHANGED <<average_salary, maximum_salary, total_records,
                              most_frequent_role>>
     ELSE /\ average_salary' = Zero
          /\ maximum_salary' = 0
          /\ total_records' = 0
          /\ most_frequent_role' = EmptyString
          /\ page' = page \cup {"title", "metrics"}
          /\ pc' = "chart1"
  /\ UNCHANGED <<source, session, df,
       available_years, available_seniorities, available_contract_types,
       available_company_sizes, selected_years, selected_seniorities,
       selected_contract_types, selected_company_sizes, filtered_df,
       top_roles, work_type_counts, average_salary_by_country>>

\* The top roles table without .sort_values(ascending=True).
TopRolesUnsorted(view, ties) ==
  nlargest(groupby_mean(view, "cargo"), TopN, ties)

\* Lines 122-129: the top roles table.
TopRoles(view, ties) ==
  sort_values(nlargest(groupby_mean(view, "cargo"), TopN, ties), TRUE, ties)

\* Lines 115-151: the roles bar chart.
Chart1 ==
  /\ pc = "chart1"
  /\ IF filtered_df # <<>>
     THEN /\ top_roles' = TopRoles(filtered_df, argsort_ties)
          /\ page' = page \cup {"roles chart"}
     ELSE /\ page' = page \cup {"roles warning"}
          /\ UNCHANGED top_roles
  /\ pc' = "chart2"
  /\ UNCHANGED <<source, session, df,
       available_years, available_seniorities, available_contract_types,
       available_company_sizes, selected_years, selected_seniorities,
       selected_contract_types, selected_company_sizes, filtered_df,
       average_salary, maximum_salary, total_records, most_frequent_role,
       work_type_counts, average_salary_by_country>>

\* Lines 153-169: the salary histogram, binned by the charting library.
Chart2 ==
  /\ pc = "chart2"
  /\ page' = page \cup
       {IF filtered_df # <<>> THEN "salary histogram" ELSE "salary warning"}
  /\ pc' = "chart3"
  /\ UNCHANGED <<source, session, namespace>>

\* Lines 172-191: the work types donut chart.
Chart3 ==
  /\ pc = "chart3"
  /\ IF filtered_df # <<>>
     THEN IF "remoto" \in csv_columns
          THEN /\ work_type_counts' =
                    value_counts(Column(filtered_df, "remoto"), argsort_ties)
               /\ page' = page \cup {"work types chart"}
               /\ pc' = "chart4"
          ELSE /\ Raise
               /\ UNCHANGED work_type_counts
     ELSE /\ page' = page \cup {"work types warning"}
          /\ pc' = "chart4"
          /\ UNCHANGED work_type_counts
  /\ UNCHANGED <<source, session, df,
       available_years, available_seniorities, available_contract_types,
       available_company_sizes, selected_years, selected_seniorities,
       selected_contract_types, selected_company_sizes, filtered_df,
       average_salary, maximum_salary, total_records, most_frequent_role,
       top_roles, average_salary_by_country>>

\* Lines 195-202.
SalaryByCountry(view) ==
  groupby_mean(RowsWhere(view, "cargo", DataScientist), "residencia_iso3")

\* Lines 193-219: the country map.
Chart4 ==
  /\ pc = "chart4"
  /\ IF filtered_df # <<>>
     THEN IF "residencia_iso3" \in csv_columns
          THEN /\ average_salary_by_country' = SalaryByCountry(filtered_df)
               /\ page' = page \cup {"country chart"}
               /\ pc' = "table"
          ELSE /\ Raise
               /\ UNCHANGED average_salary_by_country
     ELSE /\ page' = page \cup {"country warning"}
          /\ pc' = "table"
          /\ UNCHANGED average_salary_by_country
  /\ UNCHANGED <<source, session, df,
       available_years, available_seniorities, available_contract_types,
       available_company_sizes, selected_years, selected_seniorities,
       selected_contract_types, selected_company_sizes, filtered_df,
       average_salary, maximum_salary, total_records, most_frequent_role,
       top_roles, work_type_counts>>

\* Lines 225-226: the detailed data table; the script ends.
Table ==
  /\ pc = "table"
  /\ page' = page \cup {"detailed data"}
  /\ pc' = "done"
  /\ UNCHANGED <<source, session, namespace>>

\* The options a rendered multiselect offers.
Options(label) ==
  CASE label = "Year" -> Range(available_years)
    [] label = "Seniority" -> Range(available_seniorities)
    [] label = "Contract Type" -> Range(available_contract_types)
    [] label = "Company Size" -> Range(available_company_sizes)

\* The user changes the selection of a multiselect that is on the page.
\* Streamlit stores the new value and runs the script again from the top in
\* a fresh namespace.
Rerun(label, value) ==
  /\ session' = [session EXCEPT ![label] = [touched |-> TRUE, value |-> value]]
  /\ pc' = "load"
  /\ page' = {}
  /\ df' = <<>>
  /\ available_years' = <<>>
  /\ available_seniorities' = <<>>
  /\ available_contract_types' = <<>>
  /\ available_company_sizes' = <<>>
  /\ selected_years' = {}
  /\ selected_seniorities' = {}
  /\ selected_contract_types' = {}
  /\ selected_company_sizes' = {}
  /\ filtered_df' = <<>>
  /\ average_salary' = Zero
  /\ maximum_salary' = 0
  /\ total_records' = 0
  /\ most_frequent_role' = EmptyString
  /\ top_roles' = <<>>
  /\ work_type_counts' = <<>>
  /\ average_salary_by_country' = <<>>
  /\ UNCHANGED source

\* A selection change that stores the new value and keeps what the last run
\* computed and rendered.
SelectionChangeNoRerun ==
  /\ pc \in {"done", "failed"}
  /\ \E label \in Widgets \cap page :
       \E value \in SUBSET Options(label) :
         /\ value # session[label].value
         /\ session' =
              [session EXCEPT ![label] = [touched |-> TRUE, value |-> value]]
  /\ UNCHANGED <<source, pc, page, namespace>>

SelectionChange ==
  /\ pc \in {"done", "failed"}
  /\ \E label \in Widgets \cap page :
       \E value \in SUBSET Options(label) :
         /\ value # (IF session[label].touched THEN session[label].value
                      ELSE Options(label))
         /\ Rerun(label, value)

\* ------------------------------------------------------------- datasets
\* The row every other row of the small family departs from.
BaseRow ==
  [ano |-> 1, senioridade |-> 1, contrato |-> 1, tamanho_empresa |-> 1,
   cargo |-> DataScientist, usd |-> 1, remoto |-> 1, residencia_iso3 |-> 1]

\* Rows that differ from BaseRow in one column at most.
RowPool ==
  {BaseRow}
  \cup {[BaseRow EXCEPT ![c] = 2] :
          c \in {"ano", "senioridade", "contrato", "tamanho_empresa",
                 "usd", "remoto", "residencia_iso3"}}
  \cup {[BaseRow EXCEPT !.cargo = 1]}
  \cup {[BaseRow EXCEPT !.remoto = NaN]}

SmallFrames == UNION {[1..n -> RowPool] : n \in 0..MaxRows}

\* The small frames used with a CSV file that lacks a column.
NarrowFrames ==
  {f \in SmallFrames :
     \A i \in 1..Len(f) : f[i] \in {BaseRow, [BaseRow EXCEPT !.ano = 2]}}

WideRoleSet == 1..WideRoles

\* One row per role, in ascending or descending role order, the same filter
\* values everywhere; the (one or two) roles in low earn 1, the others 2.
\* With again, a second row for the first role, earning 1, closes the frame.
WideFrame(low, ascending, again) ==
  [i \in 1..WideRoles |->
     LET r == IF ascending THEN i ELSE WideRoles + 1 - i
     IN [BaseRow EXCEPT !.cargo = r, !.usd = IF r \in low THEN 1 ELSE 2]]
  \o (IF again THEN <<[BaseRow EXCEPT !.cargo = 1]>> ELSE <<>>)

WideFrames ==
  {WideFrame({a, b}, asc, again) :
     a \in WideRoleSet, b \in WideRoleSet, asc \in BOOLEAN, again \in BOOLEAN}

InitRun ==
  /\ session = [w \in Widgets |-> [touched |-> FALSE, value |-> {}]]
  /\ pc = "load"
  /\ page = {}
  /\ FreshNamespace

\* The CSV file has every column, or lacks one of the columns the script reads.
Init ==
  /\ \/ /\ csv_columns = AllColumns
        /\ csv_rows \in SmallFrames
     \/ /\ csv_columns \in {AllColumns \ {c} : c \in AllColumns}
        /\ csv_rows \in NarrowFrames
  /\ argsort_ties \in {"stable", "reversed"}
  /\ InitRun

InitWide ==
  /\ csv_columns = AllColumns
  /\ csv_rows \in WideFrames
  /\ argsort_ties \in {"stable", "reversed"}
  /\ InitRun

Next ==
  \/ Load
  \/ YearFilter
  \/ SeniorityFilter
  \/ ContractFilter
  \/ SizeFilter
  \/ Filter
  \/ Kpi
  \/ Chart1
  \/ Chart2
  \/ Chart3
  \/ Chart4
  \/ Table
  \/ SelectionChange

Spec == Init /\ [][Next]_vars

SpecWide == InitWide /\ [][Next]_vars

\* ======================================================================
\* Properties: what is claimed of the script, stated on the state of a run.
\* ======================================================================

\* The run has computed filtered_df (lines 69-74 are behind it).
Filtered ==
  \/ pc \in {"kpi", "chart1", "chart2", "chart3", "chart4", "table", "done"}
  \/ pc = "failed" /\ "title" \in page

\* The selection a widget holds: what the user left selected, or, untouched,
\* every distinct value of its column.
Held(label, c) ==
  IF session[label].touched THEN session[label].value
  ELSE {csv_rows[i][c] : i \in 1..Len(csv_rows)}

Matches(row, years, seniorities, contract_types, company_sizes) ==
  /\ row.ano \in years
  /\ row.senioridade \in seniorities
  /\ row.contrato \in contract_types
  /\ row.tamanho_empresa \in company_sizes

\* The rows of frame that match, in the order of frame.
ViewOf(frame, years, seniorities, contract_types, company_sizes) ==
  LET Test(row) ==
        Matches(row, years, seniorities, contract_types, company_sizes)
  IN SelectSeq(frame, Test)

\* The view of the selection the widgets hold now.
HeldView ==
  ViewOf(csv_rows, Held("Year", "ano"), Held("Seniority", "senioridade"),
         Held("Contract Type", "contrato"),
         Held("Company Size", "tamanho_empresa"))

\* Positions of frame whose row satisfies the four memberships of this run.
KeptPositions ==
  {i \in 1..Len(df) :
     Matches(df[i], selected_years, selected_seniorities,
             selected_contract_types, selected_company_sizes)}

\* The k-th kept position, counting from 1.
KthKept(k) ==
  CHOOSE i \in KeptPositions : Cardinality({j \in KeptPositions : j <= i}) = k

\* C1: a row of the dataset is in the filtered view iff its 'ano',
\* 'senioridade', 'contrato' and 'tamanho_empresa' are each in the selected
\* list; the view holds nothing else, keeps the dataset's order, and the
\* dataset is left as loaded.
C1_FilterSoundComplete ==
  Filtered =>
    /\ Len(filtered_df) = Cardinality(KeptPositions)
    /\ \A k \in 1..Len(filtered_df) : filtered_df[k] = df[KthKept(k)]
    /\ df = csv_rows

\* A two-row dataset of which the selection keeps one row and drops the other.
C1_Witness ==
  /\ pc = "done"
  /\ Len(df) = 2
  /\ Len(filtered_df) = 1
  /\ selected_years # {}
  /\ selected_seniorities # {}
  /\ selected_contract_types # {}
  /\ selected_company_sizes = {1}
  /\ df[1].tamanho_empresa = 2

DistinctOf(c) == {csv_rows[i][c] : i \in 1..Len(csv_rows)}

AllSelected ==
  /\ selected_years = DistinctOf("ano")
  /\ selected_seniorities = DistinctOf("senioridade")
  /\ selected_contract_types = DistinctOf("contrato")
  /\ selected_company_sizes = DistinctOf("tamanho_empresa")

Untouched == \A w \in Widgets : ~session[w].touched

\* C2: with every selection equal to the full set of distinct values of its
\* column, which is what the widgets hold before any user interaction, the
\* filtered view is the whole dataset.
C2_DefaultIsIdentity ==
  Filtered => ((Untouched \/ AllSelected) => filtered_df = csv_rows)

\* The first run over a two-row dataset whose rows differ in year.
C2_Witness ==
  /\ pc = "done"
  /\ Untouched
  /\ Len(csv_rows) = 2
  /\ csv_rows[1].ano # csv_rows[2].ano
  /\ Len(filtered_df) = 2

\* C3: whatever selections came before, what a run shows is what the
\* filtered view of the selection now held gives: the view, the four metrics
\* and every projection are functions of the dataset and that selection.
C3_OutputsOfCurrentSelection ==
  LET view == HeldView
  IN /\ Filtered => filtered_df = view
     /\ "metrics" \in page =>
          IF view = <<>>
          THEN /\ average_salary = Zero
               /\ maximum_salary = 0
               /\ total_records = 0
               /\ most_frequent_role = EmptyString
          ELSE /\ average_salary = mean(Column(view, "usd"))
               /\ maximum_salary = max(Column(view, "usd"))
               /\ total_records = Len(view)
               /\ most_frequent_role = mode(Column(view, "cargo"))[1]
     /\ "roles chart" \in page =>
          view # <<>> /\ top_roles = TopRoles(view, argsort_ties)
     /\ "salary histogram" \in page => view # <<>>
     /\ "work types chart" \in page =>
          /\ view # <<>>
          /\ work_type_counts = value_counts(Column(view, "remoto"), argsort_ties)
     /\ "country chart" \in page =>
          view # <<>> /\ average_salary_by_country = SalaryByCountry(view)
     /\ page \cap {"roles warning", "salary warning", "work types warning",
                   "country warning"} # {} => view = <<>>
     /\ "detailed data" \in page => filtered_df = view

\* A run that shows a non-empty view after the user went through an earlier,
\* different selection and came back to a wider one.
C3_Witness ==
  /\ pc = "done"
  /\ session["Year"].touched
  /\ session["Seniority"].touched
  /\ Len(filtered_df) = 2
  /\ filtered_df[1].usd # filtered_df[2].usd

\* The 'usd' values of the filtered view, and their sum taken position by
\* position.
RECURSIVE UsdTotal(_)
UsdTotal(n) == IF n = 0 THEN 0 ELSE filtered_df[n].usd + UsdTotal(n - 1)

\* C4: on an empty filtered view the summary is mean 0, max 0, count 0 and
\* role "", and the run raises nothing; on a non-empty view the count is the
\* number of rows of the view, the max its largest 'usd' and the mean the
\* arithmetic mean of its 'usd' values.
C4_Summary ==
  /\ Filtered /\ filtered_df = <<>> => pc # "failed"
  /\ pc \in {"chart1", "chart2", "chart3", "chart4", "table", "done"} =>
       /\ "metrics" \in page
       /\ IF filtered_df = <<>>
          THEN /\ average_salary = [num |-> 0, den |-> 1]
               /\ maximum_salary = 0
               /\ total_records = 0
               /\ most_frequent_role = EmptyString
          ELSE /\ total_records = Len(filtered_df)
               /\ \E i \in 1..Len(filtered_df) :
                    maximum_salary = filtered_df[i].usd
               /\ \A i \in 1..Len(filtered_df) :
                    filtered_df[i].usd <= maximum_salary
               /\ average_salary.den > 0
               /\ average_salary.num * Len(filtered_df) =
                    UsdTotal(Len(filtered_df)) * average_salary.den

\* The summary of a view of two rows with different salaries.
C4_Witness ==
  /\ pc = "done"
  /\ Len(filtered_df) = 2
  /\ filtered_df[1].usd = 2
  /\ filtered_df[2].usd = 1

\* The summary of an empty view of a non-empty dataset.
C4_WitnessEmpty ==
  /\ pc = "done"
  /\ csv_rows # <<>>
  /\ filtered_df = <<>>

RoleCount(r) ==
  Cardinality({i \in 1..Len(filtered_df) : filtered_df[i].cargo = r})

ViewRoles == {filtered_df[i].cargo : i \in 1..Len(filtered_df)}

TopCountRoles == {r \in ViewRoles : \A q \in ViewRoles : RoleCount(q) <= RoleCount(r)}

\* Position of the first row of the view with role r.
FirstRow(r) ==
  CHOOSE i \in 1..Len(filtered_df) :
    /\ filtered_df[i].cargo = r
    /\ \A j \in 1..(i - 1) : filtered_df[j].cargo # r

MetricsOfRows == "metrics" \in page /\ filtered_df # <<>>

WorkTypes == {filtered_df[i].remoto : i \in 1..Len(filtered_df)}

RECURSIVE CountTotal(_)
CountTotal(n) == IF n = 0 THEN 0 ELSE work_type_counts[n].count + CountTotal(n - 1)

\* C8: the work type table of a non-empty view has exactly one row for every
\* distinct 'remoto' value of the view, a missing value included, each with
\* the number of rows of the view that carry it, and the counts add up to
\* the number of rows of the view.
C8_WorkTypeCountsTotal ==
  "work types chart" \in page =>
    /\ \A v \in WorkTypes :
         Cardinality({k \in 1..Len(work_type_counts) :
                        work_type_counts[k].work_type = v}) = 1
    /\ \A k \in 1..Len(work_type_counts) :
         /\ work_type_counts[k].work_type \in WorkTypes
         /\ work_type_counts[k].count =
              Cardinality({i \in 1..Len(filtered_df) :
                 filtered_df[i].remoto = work_type_counts[k].work_type})
    /\ CountTotal(Len(work_type_counts)) = Len(filtered_df)

DataDerived ==
  Widgets \cup {"metrics", "roles chart", "salary histogram",
                "work types chart", "country chart", "detailed data",
                "roles warning", "salary warning", "work types warning",
                "country warning"}

\* C9: when the CSV file lacks a required column the run fails before it
\* renders any filter widget, metric, chart or table, whatever the selection.
C9_MissingColumnFailsFirst ==
  csv_columns # AllColumns =>
    /\ page \cap DataDerived = {}
    /\ pc # "done"

SomeSelectionEmpty ==
  \/ selected_years = {}
  \/ selected_seniorities = {}
  \/ selected_contract_types = {}
  \/ selected_company_sizes = {}

\* C10: when the selection of any one dimension is empty the filtered view
\* is empty whatever the other selections are; the summary is the zero
\* summary, no projection is computed, every chart gives way to its warning
\* and the run raises nothing.
C10_EmptySelectionSelectsNothing ==
  Filtered /\ SomeSelectionEmpty =>
    /\ filtered_df = <<>>
    /\ pc # "failed"
    /\ "metrics" \in page =>
         /\ average_salary = [num |-> 0, den |-> 1]
         /\ maximum_salary = 0
         /\ total_records = 0
         /\ most_frequent_role = EmptyString
    /\ top_roles = <<>>
    /\ work_type_counts = <<>>
    /\ average_salary_by_country = <<>>
    /\ page \cap {"roles chart", "salary histogram", "work types chart",
                  "country chart"} = {}
    /\ pc = "done" =>
         {"metrics", "roles warning", "salary warning", "work types warning",
          "country warning"} \subseteq page

\* A finished run over a non-empty dataset with no year selected and
\* something selected in the three other dimensions.
C10_Witness ==
  /\ pc = "done"
  /\ csv_rows # <<>>
  /\ selected_years = {}
  /\ selected_seniorities # {}
  /\ selected_contract_types # {}
  /\ selected_company_sizes # {}

RoleRows(r) == {i \in 1..Len(filtered_df) : filtered_df[i].cargo = r}

RECURSIVE RoleUsdTotal(_, _)
RoleUsdTotal(r, n) ==
  IF n = 0 THEN 0
  ELSE (IF filtered_df[n].cargo = r THEN filtered_df[n].usd ELSE 0)
       + RoleUsdTotal(r, n - 1)

\* The arithmetic mean of the 'usd' values of role r in the view, as the
\* pair of its sum and its count.
RoleMean(r) ==
  [num |-> RoleUsdTotal(r, Len(filtered_df)), den |-> Cardinality(RoleRows(r))]

\* a < b and a = b for two such pairs.
Below(a, b) == a.num * b.den < b.num * a.den

Same(a, b) == a.num * b.den = b.num * a.den

TopRolesShown == "roles chart" \in page

Included == {top_roles[k].key : k \in 1..Len(top_roles)}

\* C6: the top roles table of a non-empty view has min(10, number of
\* distinct roles of the view) entries, no role twice, each with the
\* arithmetic mean of its role's 'usd' values; no role left out has a mean
\* strictly greater than one included; the entries ascend by mean.
C6_TopRoles ==
  TopRolesShown =>
    /\ Len(top_roles) =
         (IF Cardinality(ViewRoles) < 10 THEN Cardinality(ViewRoles) ELSE 10)
    /\ \A j \in 1..Len(top_roles) : \A k \in 1..Len(top_roles) :
         top_roles[j].key = top_roles[k].key => j = k
    /\ \A k \in 1..Len(top_roles) :
         /\ top_roles[k].key \in ViewRoles
         /\ top_roles[k].usd.den > 0
         /\ Same(top_roles[k].usd, RoleMean(top_roles[k].key))
    /\ \A r \in ViewRoles \ Included : \A q \in Included :
         ~Below(RoleMean(q), RoleMean(r))
    /\ \A k \in 1..(Len(top_roles) - 1) :
         ~Below(top_roles[k + 1].usd, top_roles[k].usd)

\* More than ten roles, so one is left out; the table holds means that
\* differ, one of them the mean of a role with two rows of different salary.
C6_Witness ==
  /\ TopRolesShown
  /\ pc = "done"
  /\ ViewRoles \ Included # {}
  /\ \E k \in 1..Len(top_roles) :
       /\ Cardinality(RoleRows(top_roles[k].key)) = 2
       /\ Below(top_roles[k].usd, top_roles[Len(top_roles)].usd)
       /\ Below(top_roles[1].usd, top_roles[k].usd)

\* C7 as stated: roles of equal mean keep the order in which they were first
\* met in the view, both in which of them are selected when the tie
\* straddles the tenth place and in their relative order in the table.
C7_TiesFirstEncountered ==
  TopRolesShown =>
    /\ \A q \in Included : \A r \in ViewRoles \ Included :
         Same(RoleMean(q), RoleMean(r)) => FirstRow(q) < FirstRow(r)
    /\ \A j \in 1..Len(top_roles) : \A k \in 1..Len(top_roles) :
         (j < k /\ Same(top_roles[j].usd, top_roles[k].usd)) =>
           FirstRow(top_roles[j].key) < FirstRow(top_roles[k].key)

\* C7 amended: when roles of equal mean straddle the tenth place, the ones
\* selected are the first in the sorted order of the role names.
C7_TiesByRoleName ==
  TopRolesShown =>
    \A q \in Included : \A r \in ViewRoles \ Included :
      Same(RoleMean(q), RoleMean(r)) => q < r

\* A tie straddles the tenth place, and the role left out was met in the
\* view before the tied role that is included.
C7_Witness ==
  /\ TopRolesShown
  /\ \E q \in Included : \E r \in ViewRoles \ Included :
       /\ Same(RoleMean(q), RoleMean(r))
       /\ FirstRow(r) < FirstRow(q)

====
